---- MODULE Spec2Model ----
(***************************************************************************)
(* Model of Yendor.Scheduler (src/src/yendor/scheduler.ts): a turn         *)
(* scheduler that owns a binary min-heap of timed entities keyed by their  *)
(* waitTime.  The heap class itself (BinaryHeap) is not part of the        *)
(* sources at hand; it is modelled from section 4.1 of the specification   *)
(* as an array-backed binary min-heap.                                     *)
(* The module also models Position.getAdjacentCells (Position class of the *)
(* same repository), which is independent of the scheduler.                *)
(***************************************************************************)
EXTENDS Integers, Sequences, FiniteSets, TLC

(* ------------------------------ bounds --------------------------------- *)
\* largest waitTime an entity is constructed with (the scenario aside)
MaxWait == 2
\* waitTimes (constructed or set by update()) go down to -MaxNeg
MaxNeg == 1
\* largest waitTime an update() call sets
MaxUpd == 1
\* longest array handed to addAll()
MaxBatch == 2
\* most elements the scheduler holds, in its heap and in the arrays of
\* popped entities (an entity may be held more than once)
MaxQueue == 3
\* most calls of the scheduler that the update() calls of one run() make
MaxCalls == 1
\* waitTimes are followed down to -MaxFall, and around -2^53 from
\* -2^53 + MaxFall down to -2^53 - MaxFall
MaxFall == 6
\* most elements the heap holds when it is exercised on its own
MaxHeap == 4
\* largest map width, map height and coordinate of a Position
MaxMap == 3

Entities == {"A", "B", "C"}
\* the result of peek()/pop() on an empty heap (undefined)
None == "none"

WaitVals == (0 - MaxNeg)..MaxWait
\* the waitTimes of the scenario of section 8: A = 3, B = 1, C = 5
ScenarioWait == [e \in Entities |-> CASE e = "A" -> 3 [] e = "B" -> 1 [] e = "C" -> 5]
UpdVals == (0 - MaxNeg)..MaxUpd

VARIABLES
    waitTime,        \* TimedEntity.waitTime of every entity
    content,         \* Scheduler.entities: the array of the heap
    paused,          \* Scheduler.paused
    pc,              \* "idle" between operations, "loop" at the head of the
                     \* while loop of run(), "update" inside an update()
    elapsed,         \* run(): var elapsed
    entity,          \* run(): var entity
    updatedEntities, \* run(): var updatedEntities
    oldWaitTime,     \* run(): var oldWaitTime, while update() is running
    stack,           \* the run() calls suspended in an update() that called run()
    calls,           \* calls of the scheduler made by update() in this run()
    lastOp,          \* history: the operation that acted last
    entry,           \* history: the queue at entry of the last run()
    given,           \* history: the waitTime the last update() set
    q0,              \* log: the heap array at entry of the last run()
    w0,              \* log: the waitTimes at entry of the last run()
    wdec,            \* log: the waitTimes after the bulk decrement
    acts,            \* log: the update() calls of the last run()
    prevActivated,   \* log: entities updated by the run() before
    logging,         \* what is remembered: nothing ("off"), base ("pause"),
                     \* entry and given ("entry"), or these two and the log
                     \* ("full"); fixed per behaviour
    base,            \* history: the state at pause(), while untouched
    due,             \* history: run() calls left until an entity's turn
    counting,        \* history: whether due is kept (fixed per behaviour)
    tracking,        \* history: whether arg, retired, settled are kept (fixed)
    arg,             \* history: the argument of remove(), if it acted last
    retired,         \* history: entities removed and not added since
    removed,         \* history: the entity that an update() of this run() last
                     \* called remove() on, unless added since (else undefined)
    settled,         \* history: a run() has returned and nothing was added since
    error,           \* run() has thrown (a property of undefined was read)
    period,          \* the waitTime update() gives the watched entity (0: none)
    clock,           \* history: elapsed consumed since the watched entity's turn
    ret,             \* BinaryHeap: the result of the last pop() or peek()
    pos,             \* a Position: its x and y
    adj              \* the last getAdjacentCells() call since the last move

core == <<waitTime, content, paused>>
locals == <<pc, elapsed, entity, updatedEntities, oldWaitTime, stack>>
Kept == logging \in {"entry", "full"}
Following == logging = "pause"
Logged == logging = "full"
log == <<q0, w0, wdec, acts, prevActivated>>
flags == <<logging, counting, tracking, period>>
vars == <<waitTime, content, paused, pc, elapsed, entity, updatedEntities,
          oldWaitTime, stack, calls, lastOp, entry, given, q0, w0, wdec, acts,
          prevActivated, logging, base, due, counting, tracking, arg, retired,
          removed, settled, error, period, clock, ret, pos, adj>>
\* what the scheduler never touches
apart == <<ret, pos, adj>>

(* ------------------------- generic helpers ----------------------------- *)
Range(s) == {s[i] : i \in 1..Len(s)}

Swap(c, i, j) == [c EXCEPT ![i] = c[j], ![j] = c[i]]

\* arrays of elements of S (repetitions allowed), of length at most n
Seqs(S, n) == UNION {[1..k -> S] : k \in 0..n}

\* how many times e occurs in the array c
Count(c, e) == Cardinality({i \in 1..Len(c) : c[i] = e})

(* ----------------- BinaryHeap (array-backed min-heap) ------------------ *)
\* variant: the extractor negates the key (a max-heap)
KeyNegated(wt, e) == 0 - wt[e]

\* constructor: the key extractor handed to the heap, entity.waitTime
Key(wt, e) == wt[e]

\* sift-up of the element at (1-based) position i
RECURSIVE BubbleUp(_, _, _)
BubbleUp(c, wt, i) ==
    IF i <= 1 THEN c
    ELSE LET parent == i \div 2 IN
         IF Key(wt, c[i]) < Key(wt, c[parent])
         THEN BubbleUp(Swap(c, i, parent), wt, parent)
         ELSE c

\* sift-down of the element at (1-based) position i
RECURSIVE SinkDown(_, _, _)
SinkDown(c, wt, i) ==
    LET l == 2 * i
        r == 2 * i + 1
        viaL == IF l <= Len(c) /\ Key(wt, c[l]) < Key(wt, c[i]) THEN l ELSE i
        swap == IF r <= Len(c) /\ Key(wt, c[r]) < Key(wt, c[viaL]) THEN r ELSE viaL
    IN IF swap = i THEN c ELSE SinkDown(Swap(c, i, swap), wt, swap)

HeapPush(c, wt, e) == BubbleUp(Append(c, e), wt, Len(c) + 1)

RECURSIVE HeapPushAll(_, _, _)
HeapPushAll(c, wt, es) ==
    IF es = <<>> THEN c
    ELSE HeapPushAll(HeapPush(c, wt, Head(es)), wt, Tail(es))

\* peek(index), index counted from 0 as in the code; undefined out of range
HeapPeek(c, index) == IF index + 1 \in 1..Len(c) THEN c[index + 1] ELSE None

\* the element pop() returns; undefined when the heap is empty
HeapPopResult(c) == IF Len(c) = 0 THEN None ELSE c[1]

\* the array left by pop()
HeapPop(c, wt) ==
    IF Len(c) <= 1 THEN <<>>
    ELSE SinkDown([SubSeq(c, 1, Len(c) - 1) EXCEPT ![1] = c[Len(c)]], wt, 1)

\* the array left by remove(e): the first cell that holds e is filled with
\* the last element, which is then sifted
HeapRemove(c, wt, e) ==
    IF e \notin Range(c) THEN c
    ELSE LET idx == CHOOSE i \in 1..Len(c) :
                        c[i] = e /\ \A j \in 1..(i - 1) : c[j] # e
             front == SubSeq(c, 1, Len(c) - 1)
         IN IF idx = Len(c) THEN front
            ELSE LET moved == [front EXCEPT ![idx] = c[Len(c)]]
                     up == BubbleUp(moved, wt, idx)
                 IN IF up # moved THEN up ELSE SinkDown(moved, wt, idx)

HeapSize(c) == Len(c)
HeapIsEmpty(c) == Len(c) = 0

(* ------------------------------ Scheduler ------------------------------ *)
\* variant: the early return forgets the paused flag
RunIsNoopIgnoringPause == HeapIsEmpty(content)

\* variant: the early return forgets the empty queue
RunIsNoopIgnoringEmpty == paused

\* run(): the early return
RunIsNoop == paused \/ HeapIsEmpty(content)

\* run(): if ( elapsed > 0 )
ShouldDecrement(el) == el > 0

\* run(): for (i = 0 .. size-1) peek(i).waitTime -= elapsed, from index i on
RECURSIVE DecrementFrom(_, _, _, _)
DecrementFrom(wt, c, el, i) ==
    IF i >= HeapSize(c) THEN wt
    ELSE DecrementFrom([wt EXCEPT ![HeapPeek(c, i)] = @ - el], c, el, i + 1)

\* variant: the decrement loop starts at index 1 and misses the root
AfterDecrementSkipRoot(wt, c, el) ==
    IF ShouldDecrement(el) THEN DecrementFrom(wt, c, el, 1) ELSE wt

\* run(): the waitTimes after the "decrease all entities' wait time" block
AfterDecrement(wt, c, el) ==
    IF ShouldDecrement(el) THEN DecrementFrom(wt, c, el, 0) ELSE wt

\* waitTime is a number, an IEEE double: every integer down to
\* -2^53 = -9007199254740992 is one, and from there down to -2^54 the even
\* integers only. Two53 is the numeral written here for 2^53, which the
\* integers of the model checker do not reach: a waitTime w of the model
\* with 2 * w > -Two53 is the number w of the program, and any other is
\* the number -2^53 + (w + Two53) of the program. The order of the numbers
\* is the order of their numerals.
Two53 == 100 * MaxFall

\* w is a number near 0, where every integer is a double
Near(w) == 2 * w > 0 - Two53

\* the waitTimes that are followed
Followed(w) == w >= 0 - MaxFall \/ (w <= MaxFall - Two53 /\ w >= 0 - MaxFall - Two53)

\* the double nearest to -2^53 + r, as its distance from -2^53, for a small
\* integer r: below -2^53 an odd integer lies halfway between two doubles
\* and is rounded to the one with the even significand, a multiple of 4
Nearest(r) ==
    IF r >= 0 \/ r % 2 = 0 THEN r
    ELSE IF (r + 1) % 4 = 0 THEN r + 1 ELSE r - 1

\* run(): waitTime -= elapsed on doubles, w - el rounded to the nearest one
Minus(w, el) == IF Near(w) THEN w - el ELSE Nearest(w + Two53 - el) - Two53

\* run(): the decrement loop from index i on, on doubles
RECURSIVE DecrementFromDouble(_, _, _, _)
DecrementFromDouble(wt, c, el, i) ==
    IF i >= HeapSize(c) THEN wt
    ELSE DecrementFromDouble([wt EXCEPT ![HeapPeek(c, i)] = Minus(@, el)], c, el, i + 1)

\* run(): the waitTimes after the "decrease all entities' wait time" block,
\* on doubles
AfterDecrementDouble(wt, c, el) ==
    IF ShouldDecrement(el) THEN DecrementFromDouble(wt, c, el, 0) ELSE wt

\* variant: the loop stops at waitTime 0 instead of activating it
LoopCondStrict(e, wt) == e # None /\ wt[e] < 0

\* run(): while ( entity && entity.waitTime <= 0 )
LoopCond(e, wt) == e # None /\ wt[e] <= 0

\* variant: an unchanged waitTime is not corrected
EnforcedOnlyLower(old, new) == IF new < old THEN old + 1 ELSE new

\* variant: the waitTime is reset after every update()
EnforcedAlways(old, new) == old + 1

\* run(): the waitTime left after update() set it to new, old being oldWaitTime
Enforced(old, new) == IF new <= old THEN old + 1 ELSE new

\* no pause() is being followed
NoBase == [set |-> FALSE, w |-> [e \in Entities |-> 0], c |-> <<>>, ran |-> FALSE]

\* the number of run() calls the waitTime w announces (-1: none announced)
Announced(w) == IF w >= 1 THEN w ELSE 0 - 1

\* variant: the pop() of the activated entity is forgotten
EntitiesAfterPopKept(c, wt) == c

\* run(): this.entities.pop() in the loop body
EntitiesAfterPop(c, wt) == HeapPop(c, wt)

\* the entity whose turns are timed against the clock
Watched == "A"
\* update() of the watched entity sets a fixed period
IsWatched(e) == period > 0 /\ e = Watched

\* run(): what a call takes off the waitTimes, elapsed when it is positive
Consumed(el) == IF ShouldDecrement(el) THEN el ELSE 0

\* no getAdjacentCells() call has been made
NoCall == [w |-> 0, h |-> 0, diagonals |-> FALSE, at |-> [x |-> 0, y |-> 0],
           cells |-> <<>>, made |-> FALSE]

\* the least of the waitTimes wt of the elements of a non-empty array c
MinOf(c, wt) == CHOOSE m \in {wt[e] : e \in Range(c)} : \A e \in Range(c) : m <= wt[e]

\* no run() is remembered
NoEntry == [n |-> [e \in Entities |-> 0], w |-> [e \in {} |-> 0], min |-> 0, el |-> 0,
            prev |-> {}]

\* the entities that the run() remembered as en has updated
UpdatedIn(en) == {e \in Entities : en.n[e] > 0} \ DOMAIN en.w

\* what is remembered of the queue c with the waitTimes wt when run() is
\* entered: how many times each entity is in it, the waitTime of each, the
\* least of them, the waitTime of the first element, and the entities that
\* the run() call just before this one updated, if the last operation was
\* a run() call
EntryOf(c, wt) ==
    [n |-> [e \in Entities |-> Count(c, e)], w |-> [e \in Range(c) |-> wt[e]],
     min |-> MinOf(c, wt), el |-> wt[HeapPeek(c, 0)],
     prev |-> IF lastOp = "run" THEN UpdatedIn(entry) ELSE {}]

\* the entry waitTime of e is forgotten once e is updated
Forget(en, e) == [en EXCEPT !.w = [x \in (DOMAIN en.w) \ {e} |-> en.w[x]]]

\* the arrays of popped entities of the suspended run() calls, end to end
RECURSIVE PendingIn(_)
PendingIn(st) ==
    IF st = <<>> THEN <<>> ELSE st[1].updatedEntities \o PendingIn(Tail(st))

\* every entity popped and waiting for its re-insertion
Pending == updatedEntities \o PendingIn(stack)

\* a call of the scheduler can be made between two run() calls, or by an
\* update() that run() has invoked
Callable == pc = "idle" \/ (pc = "update" /\ calls < MaxCalls)

\* a call made between two run() calls ends the memory of a removal
StillRemoved == removed' = IF pc = "idle" THEN None ELSE removed

\* the call is counted when an update() makes it
Called == calls' = IF pc = "update" THEN calls + 1 ELSE calls

NoRunHist ==
    /\ UNCHANGED <<flags, apart>>
    /\ Called
    /\ error' = error
    /\ entry' = NoEntry
    /\ given' = 0
    /\ q0' = <<>>
    /\ w0' = [e \in Entities |-> 0]
    /\ wdec' = [e \in Entities |-> 0]
    /\ acts' = <<>>
    /\ prevActivated' = {}

\* new Scheduler(), and the entities the caller has at hand
Constructed ==
    /\ content = <<>>
    /\ paused = FALSE
    /\ pc = "idle"
    /\ elapsed = 0
    /\ entity = None
    /\ updatedEntities = <<>>
    /\ oldWaitTime = 0
    /\ stack = <<>>
    /\ calls = 0
    /\ lastOp = "init"
    /\ entry = NoEntry
    /\ given = 0
    /\ q0 = <<>>
    /\ w0 = [e \in Entities |-> 0]
    /\ wdec = [e \in Entities |-> 0]
    /\ acts = <<>>
    /\ prevActivated = {}
    /\ base = NoBase
    /\ due = [e \in Entities |-> 0 - 1]
    /\ arg = None
    /\ retired = {}
    /\ removed = None
    /\ settled = FALSE
    /\ error = FALSE
    /\ clock = 0 - 1
    /\ ret = None
    /\ pos = [x |-> 0, y |-> 0]
    /\ adj = NoCall

\* the entities at hand have any waitTime
AnyWait == waitTime \in [Entities -> WaitVals]

\* the scheduler, with nothing remembered of its past
InitPlain ==
    /\ Constructed /\ AnyWait
    /\ logging = "off" /\ counting = FALSE /\ tracking = FALSE /\ period = 0

\* the same scheduler, with the queue at entry of run() remembered
Init ==
    /\ Constructed /\ AnyWait
    /\ logging = "entry" /\ counting = FALSE /\ tracking = FALSE /\ period = 0

\* the same scheduler, with the state at pause() remembered
InitPause ==
    /\ Constructed /\ AnyWait
    /\ logging = "pause" /\ counting = FALSE /\ tracking = FALSE /\ period = 0

\* the same scheduler, with a log of each run() call
InitLogged ==
    /\ Constructed /\ AnyWait
    /\ logging = "full" /\ counting = FALSE /\ tracking = FALSE /\ period = 0

\* the same scheduler, with the run() calls counted against waitTime
InitCounting ==
    /\ Constructed /\ AnyWait
    /\ logging = "full" /\ counting = TRUE /\ tracking = FALSE /\ period = 0

\* the same scheduler, with the removals and additions remembered
InitTracked ==
    /\ Constructed /\ AnyWait
    /\ logging = "off" /\ counting = FALSE /\ tracking = TRUE /\ period = 0

\* the array handed to addAll() for a crowded queue: A four times, around B
Crowd == <<"A", "A", "A", "B", "A">>

\* the crowded queue after addAll(Crowd) with A.waitTime = B.waitTime = 1 and
\* 2^53 + 1 - k calls of run() in which A.update() sets waitTime to 1, the
\* last one to a: each call takes A.waitTime from B.waitTime, updates A alone
\* and leaves the heap array as it was
Descended ==
    /\ content = Crowd
    /\ \E a \in 1..MaxUpd, k \in 0..MaxWait, w \in WaitVals :
          waitTime = [e \in Entities |->
                        CASE e = "A" -> a [] e = "B" -> k - Two53 [] OTHER -> w]

\* new Scheduler(); addAll(Crowd), at once or many run() calls later, with
\* nothing remembered
InitCrowded ==
    /\ \/ AnyWait /\ content = HeapPushAll(<<>>, waitTime, Crowd)
       \/ Descended
    /\ paused = FALSE
    /\ pc = "idle"
    /\ elapsed = 0
    /\ entity = None
    /\ updatedEntities = <<>>
    /\ oldWaitTime = 0
    /\ stack = <<>>
    /\ calls = 0
    /\ lastOp = "addAll"
    /\ entry = NoEntry
    /\ given = 0
    /\ q0 = <<>>
    /\ w0 = [e \in Entities |-> 0]
    /\ wdec = [e \in Entities |-> 0]
    /\ acts = <<>>
    /\ prevActivated = {}
    /\ base = NoBase
    /\ due = [e \in Entities |-> 0 - 1]
    /\ arg = None
    /\ retired = {}
    /\ removed = None
    /\ settled = FALSE
    /\ error = FALSE
    /\ clock = 0 - 1
    /\ ret = None
    /\ pos = [x |-> 0, y |-> 0]
    /\ adj = NoCall
    /\ logging = "off" /\ counting = FALSE /\ tracking = FALSE /\ period = 0

\* the scheduler of the scenario: A, B and C with waitTimes 3, 1 and 5
InitScenario ==
    /\ Constructed
    /\ waitTime = ScenarioWait
    /\ logging = "entry" /\ counting = FALSE /\ tracking = FALSE /\ period = 0

\* add(entity), whether or not the entity is queued already
Add(e) ==
    /\ Callable
    /\ Len(content) + Len(Pending) < MaxQueue
    /\ content' = HeapPush(content, waitTime, e)
    /\ lastOp' = "add"
    /\ base' = NoBase
    /\ due' = IF ~counting THEN due ELSE
          [due EXCEPT ![e] = Announced(waitTime[e])]
    /\ NoRunHist
    /\ arg' = None
    /\ retired' = retired \ {e}
    /\ removed' = IF pc = "idle" \/ e = removed THEN None ELSE removed
    /\ settled' = FALSE
    /\ UNCHANGED <<waitTime, paused, locals, clock>>

\* addAll(entities), for any array of entities
AddAll(es) ==
    /\ Callable
    /\ Len(content) + Len(Pending) + Len(es) <= MaxQueue
    /\ content' = HeapPushAll(content, waitTime, es)
    /\ lastOp' = "addAll"
    /\ base' = NoBase
    /\ due' = IF ~counting THEN due ELSE
          [e \in Entities |-> IF e \in Range(es) THEN Announced(waitTime[e]) ELSE due[e]]
    /\ NoRunHist
    /\ arg' = None
    /\ retired' = retired \ Range(es)
    /\ removed' = IF pc = "idle" \/ removed \in Range(es) THEN None ELSE removed
    /\ settled' = FALSE
    /\ UNCHANGED <<waitTime, paused, locals, clock>>

\* variant: remove() leaves the queue as it is
EntitiesAfterRemoveKept(c, wt, e) == c

\* remove(entity): this.entities.remove(entity)
EntitiesAfterRemove(c, wt, e) == HeapRemove(c, wt, e)

\* variant: remove() empties the queue, as clear() does
RemoveClears(e) ==
    /\ Callable
    /\ content' = <<>>
    /\ lastOp' = "remove"
    /\ base' = NoBase
    /\ due' = IF ~counting THEN due ELSE
          [due EXCEPT ![e] = 0 - 1]
    /\ NoRunHist
    /\ arg' = IF tracking THEN e ELSE None
    /\ retired' = IF tracking THEN retired \cup {e} ELSE retired
    /\ removed' = IF pc = "update" THEN e ELSE None
    /\ clock' = IF e = Watched THEN 0 - 1 ELSE clock
    /\ UNCHANGED <<waitTime, paused, locals, settled>>

\* remove(entity)
Remove(e) ==
    /\ Callable
    /\ content' = EntitiesAfterRemove(content, waitTime, e)
    /\ lastOp' = "remove"
    /\ base' = NoBase
    /\ due' = IF ~counting THEN due ELSE
          [due EXCEPT ![e] = 0 - 1]
    /\ NoRunHist
    /\ arg' = IF tracking THEN e ELSE None
    /\ retired' = IF tracking THEN retired \cup {e} ELSE retired
    /\ removed' = IF pc = "update" THEN e ELSE None
    /\ clock' = IF e = Watched THEN 0 - 1 ELSE clock
    /\ UNCHANGED <<waitTime, paused, locals, settled>>

Clear ==
    /\ Callable
    /\ content' = <<>>
    /\ lastOp' = "clear"
    /\ base' = NoBase
    /\ due' = IF ~counting THEN due ELSE
          [e \in Entities |-> 0 - 1]
    /\ NoRunHist
    /\ arg' = None
    /\ clock' = 0 - 1
    /\ StillRemoved
    /\ UNCHANGED <<waitTime, paused, locals, retired, settled>>

\* variant: pause() toggles the flag
PauseToggles ==
    /\ Callable
    /\ paused' = ~paused
    /\ lastOp' = "pause"
    /\ base' = IF paused \/ ~Following THEN base
                ELSE [set |-> TRUE, w |-> waitTime, c |-> content, ran |-> FALSE]
    /\ NoRunHist
    /\ arg' = None
    /\ StillRemoved
    /\ UNCHANGED <<waitTime, content, locals, due, retired, settled, clock>>

Pause ==
    /\ Callable
    /\ paused' = TRUE
    /\ lastOp' = "pause"
    /\ base' = IF paused \/ ~Following THEN base
                ELSE [set |-> TRUE, w |-> waitTime, c |-> content, ran |-> FALSE]
    /\ NoRunHist
    /\ arg' = None
    /\ StillRemoved
    /\ UNCHANGED <<waitTime, content, locals, due, retired, settled, clock>>

Resume ==
    /\ Callable
    /\ paused' = FALSE
    /\ lastOp' = "resume"
    /\ NoRunHist
    /\ arg' = None
    /\ StillRemoved
    /\ UNCHANGED <<waitTime, content, locals, base, due, retired, settled, clock>>

\* run() when it returns at once
RunNoop ==
    /\ Callable
    /\ RunIsNoop
    /\ lastOp' = "runNoop"
    /\ base' = IF base.set /\ paused THEN [base EXCEPT !.ran = TRUE] ELSE base
    /\ NoRunHist
    /\ arg' = None
    /\ StillRemoved
    /\ UNCHANGED <<core, locals, due, retired, settled, clock>>

\* the run() call in progress, as it is left when an update() calls run()
Frame == [elapsed |-> elapsed, entity |-> entity,
          updatedEntities |-> updatedEntities, oldWaitTime |-> oldWaitTime]

\* run() up to the head of the while loop; reading waitTime of an undefined
\* peek() result throws and ends the call
RunBegin ==
    /\ Callable
    /\ ~RunIsNoop
    /\ IF HeapPeek(content, 0) = None
       THEN /\ error' = TRUE
            /\ lastOp' = "runThrow"
            /\ UNCHANGED <<waitTime, locals, calls, entry, given, log, base, due, clock>>
       ELSE /\ LET el == waitTime[HeapPeek(content, 0)]
                   wt == AfterDecrement(waitTime, content, el)
               IN /\ elapsed' = el
                  /\ waitTime' = wt
                  /\ wdec' = IF Logged THEN wt ELSE wdec
                  /\ clock' = IF clock >= 0 THEN clock + Consumed(el) ELSE clock
            /\ updatedEntities' = <<>>
            /\ entity' = HeapPeek(content, 0)
            /\ oldWaitTime' = 0
            /\ stack' = IF pc = "update" THEN Append(stack, Frame) ELSE stack
            /\ Called
            /\ pc' = "loop"
            /\ lastOp' = "runBegin"
            /\ entry' = IF Kept THEN EntryOf(content, waitTime) ELSE entry
            /\ given' = 0
            /\ q0' = IF Logged THEN content ELSE q0
            /\ w0' = IF Logged THEN waitTime ELSE w0
            /\ acts' = <<>>
            /\ prevActivated' = IF Logged THEN {acts[i].e : i \in 1..Len(acts)}
                                ELSE prevActivated
            /\ base' = IF paused THEN base ELSE NoBase
            /\ due' = IF ~counting THEN due ELSE
                  [e \in Entities |->
                     IF e \in Range(content) /\ due[e] >= 1 THEN due[e] - 1 ELSE due[e]]
            /\ error' = error
    /\ arg' = None
    /\ StillRemoved
    /\ UNCHANGED <<content, paused, flags, retired, settled, apart>>

\* run() up to the head of the while loop, on doubles, where the waitTimes
\* it leaves are followed
RunBeginDouble ==
    /\ Callable
    /\ ~RunIsNoop
    /\ LET wt == AfterDecrementDouble(waitTime, content, waitTime[HeapPeek(content, 0)])
       IN \A e \in Entities : Followed(wt[e])
    /\ IF HeapPeek(content, 0) = None
       THEN /\ error' = TRUE
            /\ lastOp' = "runThrow"
            /\ UNCHANGED <<waitTime, locals, calls, entry, given, log, base, due, clock>>
       ELSE /\ LET el == waitTime[HeapPeek(content, 0)]
                   wt == AfterDecrementDouble(waitTime, content, el)
               IN /\ elapsed' = el
                  /\ waitTime' = wt
                  /\ wdec' = IF Logged THEN wt ELSE wdec
                  /\ clock' = IF clock >= 0 THEN clock + Consumed(el) ELSE clock
            /\ updatedEntities' = <<>>
            /\ entity' = HeapPeek(content, 0)
            /\ oldWaitTime' = 0
            /\ stack' = IF pc = "update" THEN Append(stack, Frame) ELSE stack
            /\ Called
            /\ pc' = "loop"
            /\ lastOp' = "runBegin"
            /\ entry' = IF Kept THEN EntryOf(content, waitTime) ELSE entry
            /\ given' = 0
            /\ q0' = IF Logged THEN content ELSE q0
            /\ w0' = IF Logged THEN waitTime ELSE w0
            /\ acts' = <<>>
            /\ prevActivated' = IF Logged THEN {acts[i].e : i \in 1..Len(acts)}
                                ELSE prevActivated
            /\ base' = IF paused THEN base ELSE NoBase
            /\ due' = IF ~counting THEN due ELSE
                  [e \in Entities |->
                     IF e \in Range(content) /\ due[e] >= 1 THEN due[e] - 1 ELSE due[e]]
            /\ error' = error
    /\ arg' = None
    /\ StillRemoved
    /\ UNCHANGED <<content, paused, flags, retired, settled, apart>>

\* one pass through the body of the while loop; update() sets waitTime to
\* new and calls nothing
RunLoop(new) ==
    /\ pc = "loop"
    /\ LoopCond(entity, waitTime)
    /\ IsWatched(entity) => new = period
    /\ LET old == waitTime[entity]
           popped == EntitiesAfterPop(content, waitTime)
           wt == [waitTime EXCEPT ![entity] = Enforced(old, new)]
       IN /\ updatedEntities' = Append(updatedEntities, entity)
          /\ content' = popped
          /\ waitTime' = wt
          /\ entity' = HeapPeek(popped, 0)
          /\ acts' = IF Logged
                     THEN Append(acts, [e |-> entity, old |-> old, upd |-> new])
                     ELSE acts
    /\ entry' = IF Kept THEN Forget(entry, entity) ELSE entry
    /\ given' = IF Kept THEN new ELSE given
    /\ lastOp' = "runLoop"
    /\ clock' = IF IsWatched(entity) THEN 0 ELSE clock
    /\ UNCHANGED <<paused, pc, elapsed, oldWaitTime, stack, calls, q0, w0, wdec, prevActivated,
                   base, due, arg, retired, removed, settled, error, flags, apart>>

\* the body of the while loop up to the call of update()
RunPop ==
    /\ pc = "loop"
    /\ LoopCond(entity, waitTime)
    /\ updatedEntities' = Append(updatedEntities, entity)
    /\ content' = EntitiesAfterPop(content, waitTime)
    /\ oldWaitTime' = waitTime[entity]
    /\ pc' = "update"
    /\ entry' = IF Kept THEN Forget(entry, entity) ELSE entry
    /\ lastOp' = "runPop"
    /\ UNCHANGED <<waitTime, paused, elapsed, entity, stack, calls, given, log, base, due, arg,
                   retired, removed, settled, error, clock, flags, apart>>

\* update() sets the waitTime of its entity to new
Assign(new) ==
    /\ pc = "update"
    /\ waitTime' = [waitTime EXCEPT ![entity] = new]
    /\ lastOp' = "assign"
    /\ UNCHANGED <<content, paused, locals, calls, entry, given, log, base, due, arg, retired,
                   removed, settled, error, clock, flags, apart>>

\* update() returns: the rest of the body of the while loop
UpdateReturns ==
    /\ pc = "update"
    /\ waitTime' = [waitTime EXCEPT ![entity] = Enforced(oldWaitTime, waitTime[entity])]
    /\ entity' = HeapPeek(content, 0)
    /\ oldWaitTime' = 0
    /\ pc' = "loop"
    /\ lastOp' = "runLoop"
    /\ UNCHANGED <<content, paused, elapsed, updatedEntities, stack, calls, entry, given, log,
                   base, due, arg, retired, removed, settled, error, clock, flags, apart>>

\* run() from the exit of the while loop to its return, to the caller or
\* into the update() that called it
RunEnd ==
    /\ pc = "loop"
    /\ ~LoopCond(entity, waitTime)
    /\ content' = HeapPushAll(content, waitTime, updatedEntities)
    /\ IF stack = <<>>
       THEN /\ pc' = "idle"
            /\ elapsed' = 0
            /\ entity' = None
            /\ updatedEntities' = <<>>
            /\ oldWaitTime' = 0
            /\ stack' = stack
            /\ calls' = 0
       ELSE LET top == stack[Len(stack)] IN
            /\ pc' = "update"
            /\ elapsed' = top.elapsed
            /\ entity' = top.entity
            /\ updatedEntities' = top.updatedEntities
            /\ oldWaitTime' = top.oldWaitTime
            /\ stack' = SubSeq(stack, 1, Len(stack) - 1)
            /\ calls' = calls
    /\ given' = 0
    /\ lastOp' = "run"
    /\ due' = IF ~counting THEN due ELSE
          [e \in Entities |->
                 IF e \in Range(updatedEntities) THEN Announced(waitTime[e])
                 ELSE IF due[e] = 0 THEN 0 - 1 ELSE due[e]]
    /\ settled' = tracking
    /\ UNCHANGED <<waitTime, paused, entry, log, base, arg, retired, removed, error,
                   clock, flags, apart>>

\* the scheduler driven from outside: update() calls nothing
Next ==
    \/ \E e \in Entities : Add(e)
    \/ \E es \in Seqs(Entities, MaxBatch) : AddAll(es)
    \/ \E e \in Entities : Remove(e)
    \/ Clear
    \/ Pause
    \/ Resume
    \/ RunNoop
    \/ RunBegin
    \/ \E new \in UpdVals : RunLoop(new)
    \/ RunEnd

\* the scheduler with update() calls that may set waitTime and call any
\* function of the scheduler, run() included, any number of times
ReentrantNext ==
    \/ Next
    \/ RunPop
    \/ \E new \in UpdVals : Assign(new)
    \/ UpdateReturns

Spec == Init /\ [][Next]_vars

PauseSpec == InitPause /\ [][Next]_vars

LoggedSpec == InitLogged /\ [][Next]_vars

CountingSpec == InitCounting /\ [][Next]_vars

TrackedSpec == InitTracked /\ [][Next]_vars

\* the scheduler of the scenario, where an update() may set waitTime to 2
ScenarioNext ==
    \/ Next
    \/ RunLoop(2)

ScenarioSpec == InitScenario /\ [][ScenarioNext]_vars

ReentrantSpec == InitPlain /\ [][ReentrantNext]_vars

PlainSpec == InitPlain /\ [][Next]_vars

\* the scheduler driven from outside, its numbers being doubles
CrowdedNext ==
    \/ \E e \in Entities : Add(e)
    \/ \E es \in Seqs(Entities, MaxBatch) : AddAll(es)
    \/ \E e \in Entities : Remove(e)
    \/ Clear
    \/ Pause
    \/ Resume
    \/ RunNoop
    \/ RunBeginDouble
    \/ \E new \in UpdVals : RunLoop(new)
    \/ RunEnd

\* the scheduler with a crowded queue; run() is synchronous: once begun,
\* its loop and its return always happen
CrowdedSpec ==
    /\ InitCrowded
    /\ [][CrowdedNext]_vars
    /\ WF_vars(\E new \in UpdVals : RunLoop(new))
    /\ WF_vars(RunEnd)

TypeOK ==
    /\ waitTime \in [Entities -> Int]
    /\ Range(content) \subseteq Entities
    /\ paused \in BOOLEAN
    /\ pc \in {"idle", "loop", "update"}

(* ------------------------- properties: helpers ------------------------- *)
\* the entities whose update() the last run() invoked, by the log
Activated == {acts[i].e : i \in 1..Len(acts)}

\* the last operation was a run() that went past its early return and has
\* returned to its caller
Returned == lastOp = "run" /\ pc = "idle"

\* run() stands at the head of its loop and has not called update() yet
BeforeFirstUpdate == pc = "loop" /\ lastOp = "runBegin"

\* the entities of the queue that the last run() has not updated
Survivors == DOMAIN entry.w

(* -------------------------------- C1 ----------------------------------- *)
\* C1 as stated: when run() returns, every entity that was queued at entry
\* and was not activated has its entry waitTime minus the entry minimum,
\* whatever the sign of that minimum.
C1_AsStated ==
    Returned => \A e \in Survivors : waitTime[e] = entry.w[e] - entry.min

\* C1 amended: when run() returns, every entity queued at entry and not
\* activated has its entry waitTime minus, once for each time it is in the
\* queue, the waitTime that the first element of the heap had at entry, if
\* that waitTime is positive; and has its entry waitTime unchanged if it is
\* zero or negative.  The first element has the entry minimum whenever the
\* heap is in order.
C1_ClockAdvance ==
    Returned => \A e \in Survivors :
        waitTime[e] = entry.w[e] - entry.n[e] * Consumed(entry.el)

C1_Witness ==
    /\ Returned
    /\ entry.min > 0
    /\ entry.el = entry.min
    /\ \E e \in Survivors : waitTime[e] = entry.w[e] - entry.min /\ waitTime[e] # entry.w[e]

(* -------------------------------- C2 ----------------------------------- *)
\* C2: at every update() that run() invokes, with old the waitTime at
\* invocation: if update() leaves waitTime <= old, the entity's waitTime
\* after the correction is old + 1; in every case it is greater than old.
C2_Bump ==
    [][lastOp' = "runLoop" =>
          LET old == waitTime[entity] IN
          /\ given' <= old => waitTime'[entity] = old + 1
          /\ waitTime'[entity] > old]_vars

\* an update() has just set a waitTime that the scheduler has raised
C2_Witness ==
    /\ lastOp = "runLoop"
    /\ waitTime[updatedEntities[Len(updatedEntities)]] > given
    /\ Len(updatedEntities) = 2

(* -------------------------------- C3 ----------------------------------- *)
\* C3: when a run() that was not a no-op returns, every entity of the queue
\* whose waitTime was <= 0 after the bulk decrement has been updated in
\* that call; entities that tie at 0 are all updated in that call.
C3_AllEligible ==
    Returned => \A e \in Range(q0) : wdec[e] <= 0 => e \in Activated

(* -------------------------------- C4 ----------------------------------- *)
\* a step that is a call of run()
RunCalled == lastOp' \in {"runNoop", "runBegin"}

\* C4: a run() call made while the scheduler is paused or its queue is
\* empty enters no activation loop (no update()), and leaves every
\* waitTime, the heap array and the paused flag as they were.
C4_NoopFrame ==
    [][(RunCalled /\ (paused \/ content = <<>>)) =>
          (pc' = "idle" /\ updatedEntities' = <<>> /\ waitTime' = waitTime
             /\ content' = content /\ paused' = paused)]_vars

C4_Witness ==
    /\ lastOp = "runNoop"
    /\ paused
    /\ content # <<>>
    /\ \A e \in Range(content) : waitTime[e] > 0

(* -------------------------------- C5 ----------------------------------- *)
\* the scenario: A, B and C, with waitTimes 3, 1 and 5, are each in the
\* queue once when run() is entered
ScenarioEntry ==
    /\ entry.n = [e \in Entities |-> 1]
    /\ entry.w = ScenarioWait
    /\ entry.el = 1

\* the scenario, once B has been updated and nothing else
ScenarioUpdated ==
    /\ updatedEntities = <<"B">>
    /\ entry.n = [e \in Entities |-> 1]
    /\ entry.w = [e \in {"A", "C"} |-> ScenarioWait[e]]
    /\ entry.el = 1

\* the waitTimes of the scenario after the decrement
ScenarioDecremented ==
    [e \in Entities |-> CASE e = "A" -> 2 [] e = "B" -> 0 [] e = "C" -> 4]

\* C5 as stated: in the scenario, when B's update() sets waitTime to 2 the
\* scheduler corrects it to 1: the values are then A = 2, C = 4, B = 1.
C5_AsStated ==
    [][(lastOp' = "runLoop" /\ BeforeFirstUpdate /\ ScenarioEntry /\ given' = 2) =>
          waitTime' = [e \in Entities |-> CASE e = "A" -> 2 [] e = "B" -> 1 [] e = "C" -> 4]]_vars

\* C5 amended: in the scenario elapsed is 1, the values after the
\* decrement are A = 2, B = 0, C = 4, B is the entity updated, B's
\* update() setting waitTime to 2 is kept as it is (2 > 0, no correction),
\* no other entity is updated, and run() returns with A, B and C queued
\* and A = 2, C = 4, B = 2.
C5_Scenario ==
    /\ []((BeforeFirstUpdate /\ ScenarioEntry) =>
            (elapsed = 1 /\ waitTime = ScenarioDecremented /\ entity = "B"))
    /\ [][(lastOp' = "runLoop" /\ BeforeFirstUpdate /\ ScenarioEntry /\ given' = 2) =>
            /\ waitTime' = [e \in Entities |->
                              CASE e = "A" -> 2 [] e = "B" -> 2 [] e = "C" -> 4]
            /\ updatedEntities' = <<"B">>
            /\ ~LoopCond(entity', waitTime')]_vars
    /\ [][(lastOp' = "run" /\ ScenarioUpdated) =>
            /\ waitTime' = waitTime
            /\ \A e \in Entities : Count(content', e) = 1]_vars

\* run() has returned in the scenario, with B at 2
C5_Witness ==
    /\ Returned
    /\ entry.n = [e \in Entities |-> 1]
    /\ entry.w = [e \in {"A", "C"} |-> ScenarioWait[e]]
    /\ entry.el = 1
    /\ waitTime = [e \in Entities |-> CASE e = "A" -> 2 [] e = "B" -> 2 [] e = "C" -> 4]
    /\ Len(content) = 3

(* -------------------------------- C6 ----------------------------------- *)
\* C6: the scheduler starts Running; pause() leads to Paused and resume()
\* to Running, whatever the state before; no other operation changes the
\* paused flag; pause() and resume() change no waitTime and not the queue;
\* and from a pause() on, as long as only pause(), resume() and paused
\* run() calls happen, every waitTime and the queue are as they were at the
\* pause(), so that the run() after resume() starts from the state a
\* single run() would have started from.
C6_PauseMachine ==
    /\ [](lastOp = "init" => ~paused)
    /\ [][/\ lastOp' = "pause" => paused'
          /\ lastOp' = "resume" => ~paused'
          /\ lastOp' \notin {"pause", "resume"} => paused' = paused
          /\ lastOp' \in {"pause", "resume"} =>
                (waitTime' = waitTime /\ content' = content)]_vars
    /\ [](base.set => (waitTime = base.w /\ content = base.c))

C6_Witness ==
    /\ lastOp = "resume"
    /\ ~paused
    /\ base.set
    /\ base.ran
    /\ content # <<>>
    /\ \A e \in Range(content) : waitTime[e] > 0

(* -------------------------------- C7 ----------------------------------- *)
\* e is scheduled: in the heap, or popped by the run() in progress
Queued(e) == e \in Range(content) \/ e \in Range(updatedEntities)

\* update() of e has just been invoked
JustUpdated(e) ==
    lastOp = "runLoop" /\ updatedEntities # <<>> /\ updatedEntities[Len(updatedEntities)] = e

\* C7: if run() is called infinitely often with the scheduler not paused,
\* every entity that stays in the queue from some point on is updated
\* infinitely often.
C7_NoStarvation ==
    \A e \in Entities :
        ([]<>(lastOp = "runBegin") /\ <>[]Queued(e)) => []<>JustUpdated(e)

(* -------------------------------- C8 ----------------------------------- *)
\* the entities that were eligible in the last run()
Eligible == {e \in Range(q0) : wdec[e] <= 0}

\* the scheduler with its log; run() is synchronous: once begun, its loop
\* and its return always happen
LiveLoggedSpec ==
    /\ LoggedSpec
    /\ WF_vars(\E new \in UpdVals : RunLoop(new))
    /\ WF_vars(RunEnd)

\* C8: every run() call that enters its loop returns, and when it returns
\* it has invoked update() exactly once on each entity that was eligible
\* (waitTime <= 0 after the bulk decrement) and on no other.
C8_Termination ==
    /\ (pc = "loop") ~> (pc = "idle")
    /\ [](Returned =>
            /\ Len(acts) = Cardinality(Eligible)
            /\ Activated = Eligible
            /\ \A i, j \in 1..Len(acts) : i # j => acts[i].e # acts[j].e)

(* -------------------------------- C9 ----------------------------------- *)
\* C9 as stated: an entity updated in a run() call is not updated again in
\* that call, nor in the run() call that immediately follows.
C9_AsStated ==
    /\ \A e \in Entities : Count(updatedEntities, e) <= 1
    /\ Range(updatedEntities) \cap entry.prev = {}

\* C9 amended: in one run() call an entity is updated at most once for
\* each time it is in the queue when the call is entered.
C9_OncePerOccurrence ==
    \A e \in Entities : Count(updatedEntities, e) <= entry.n[e]

\* an entity updated by a run() call is updated again by the next one
C9_Witness ==
    /\ lastOp = "runLoop"
    /\ JustUpdated("A")
    /\ "A" \in entry.prev
    /\ entry.n["A"] = 1
    /\ Len(content) + Len(updatedEntities) = 3

(* -------------------------------- C10 ---------------------------------- *)
\* C10: waitTime counts run() calls.  With due[e] the number of further
\* run() calls an entity's waitTime announced when it was added or last
\* updated, less the calls made since: a run() call before the last of them
\* does not update e, and the last of them does.
C10_AsDocumented ==
    pc = "loop" =>
       \A e \in Range(q0) :
          /\ due[e] >= 1 => e \notin Activated
          /\ (due[e] = 0 /\ ~LoopCond(entity, waitTime)) => e \in Activated

(* -------------------------------- C11 ---------------------------------- *)
\* C11: remove(e) between run() calls takes exactly one element off the
\* queue when e is queued and none when it is absent, raises no error,
\* leaves the membership of the other entities and every waitTime as they
\* were; a second remove(e) changes nothing; and update() is not invoked on
\* a removed entity until it is added again.
C11_Removal ==
    /\ [][lastOp' = "remove" =>
            /\ arg' \in Range(content) => Len(content') = Len(content) - 1
            /\ arg' \notin Range(content) => content' = content
            /\ Range(content') \ {arg'} = Range(content) \ {arg'}
            /\ waitTime' = waitTime
            /\ error' = error]_vars
    /\ [](lastOp = "remove" => HeapRemove(content, waitTime, arg) = content)
    /\ [][lastOp' = "runLoop" => entity \notin retired]_vars

(* -------------------------------- C12 ---------------------------------- *)
\* the scheduler with a watched entity that is added with waitTime >= 0 and
\* whose update() always sets the same period
InitClock ==
    /\ Constructed /\ AnyWait
    /\ logging = "off"
    /\ counting = FALSE
    /\ tracking = FALSE
    /\ period \in 1..MaxUpd
    /\ waitTime[Watched] >= 0

ClockSpec == InitClock /\ [][Next]_vars

\* C12: the virtual clock being the sum of the elapsed values that run()
\* calls took off the waitTimes, an entity whose update() always sets the
\* period p > 0 has its turns exactly p apart on that clock while it stays
\* queued, whatever the other entities are: counted from its last turn the
\* clock never passes p, its next turn comes with the clock at p, and no
\* run() returns with the clock at p and the turn not taken.
C12_PeriodicTurns ==
    /\ [](period > 0 => clock <= period)
    /\ [](clock >= 0 => Watched \in Range(content) \cup Range(updatedEntities))
    /\ [][(lastOp' = "runLoop" /\ IsWatched(entity) /\ clock >= 0)
             => clock = period]_vars
    /\ []((Returned /\ period > 0) => clock < period)

(* -------------------------------- C13 ---------------------------------- *)
\* the heap on its own: the scheduler's variables other than the array stay
\* as constructed, and no key changes
rest == <<waitTime, paused, locals, calls, entry, given, log, base, due, flags, arg,
          retired, removed, settled, error, clock>>

HPush(e) ==
    /\ Len(content) < MaxHeap
    /\ content' = HeapPush(content, waitTime, e)
    /\ ret' = None
    /\ lastOp' = "push"
    /\ UNCHANGED <<rest, pos, adj>>

HPushAll(es) ==
    /\ Len(content) + Len(es) <= MaxHeap
    /\ content' = HeapPushAll(content, waitTime, es)
    /\ ret' = None
    /\ lastOp' = "pushAll"
    /\ UNCHANGED <<rest, pos, adj>>

HPop ==
    /\ ret' = HeapPopResult(content)
    /\ content' = HeapPop(content, waitTime)
    /\ lastOp' = "pop"
    /\ UNCHANGED <<rest, pos, adj>>

HPeek ==
    /\ ret' = HeapPeek(content, 0)
    /\ lastOp' = "peek"
    /\ UNCHANGED <<content, rest, pos, adj>>

HeapNext ==
    \/ \E e \in Entities : HPush(e)
    \/ \E es \in Seqs(Entities, MaxBatch) : HPushAll(es)
    \/ HPop
    \/ HPeek

HeapSpec == InitPlain /\ [][HeapNext]_vars

\* e has a least waitTime among the elements of the array c
IsMinOf(e, c) == e \in Range(c) /\ \A i \in 1..Len(c) : waitTime[e] <= waitTime[c[i]]

\* C13: over every sequence of push, pushAll and pop on the heap, with the
\* keys left alone: pop() on a non-empty heap returns an element whose key
\* is least among those present and takes exactly that one occurrence out;
\* peek() returns the element pop() would return and removes nothing; on
\* an empty heap both return undefined and leave the heap empty.
C13_HeapCorrect ==
    /\ [][lastOp' = "pop" =>
            IF content = <<>>
            THEN ret' = None /\ content' = <<>>
            ELSE /\ IsMinOf(ret', content)
                 /\ Len(content') = Len(content) - 1
                 /\ \A e \in Entities :
                       Count(content', e) = Count(content, e) - (IF e = ret' THEN 1 ELSE 0)]_vars
    /\ [][lastOp' = "peek" =>
            /\ content' = content
            /\ ret' = HeapPopResult(content)
            /\ IF content = <<>> THEN ret' = None ELSE IsMinOf(ret', content)]_vars
    /\ [][lastOp' \in {"push", "pushAll"} =>
            /\ Len(content') >= Len(content)
            /\ \A e \in Entities : Count(content', e) >= Count(content, e)]_vars

\* pop() has just returned the least of four elements with three different
\* keys, and the least of the rest is now first
C13_Witness ==
    /\ lastOp = "pop"
    /\ Len(content) = 3
    /\ ret \in Entities
    /\ Cardinality({waitTime[e] : e \in Entities}) = 3
    /\ Range(content) \cup {ret} = Entities
    /\ \A i \in 1..Len(content) : waitTime[ret] <= waitTime[content[i]]
    /\ content[1] # content[3]

(* -------------------------------- C14 ---------------------------------- *)
\* variant: the last entry of TDX is mistyped
TDXTypo == <<0 - 1, 1, 0, 0, 0 - 1, 1, 0 - 1, 0 - 1>>

\* Position.TDX and Position.TDY (indexed from 1 here, from 0 in the code)
TDX == <<0 - 1, 1, 0, 0, 0 - 1, 1, 0 - 1, 1>>
TDY == <<0, 0, 0 - 1, 1, 0 - 1, 0 - 1, 1, 1>>

\* coordinates of a Position, and map widths and heights
Coords == (0 - 1)..MaxMap
Dims == 0..MaxMap

\* getAdjacentCells(): the for loop from index i on, adjacents being acc
RECURSIVE AdjacentFrom(_, _, _, _, _, _)
AdjacentFrom(p, mapWidth, mapHeight, len, i, acc) ==
    IF ~(i < len) THEN acc
    ELSE LET x == p.x + TDX[i + 1] IN
         IF x >= 0 /\ x < mapWidth
         THEN LET y == p.y + TDY[i + 1] IN
              IF y >= 0 /\ y < mapHeight
              THEN AdjacentFrom(p, mapWidth, mapHeight, len, i + 1,
                                Append(acc, [x |-> x, y |-> y]))
              ELSE AdjacentFrom(p, mapWidth, mapHeight, len, i + 1, acc)
         ELSE AdjacentFrom(p, mapWidth, mapHeight, len, i + 1, acc)

\* getAdjacentCells(mapWidth, mapHeight, diagonals) on the position p
AdjacentCells(p, mapWidth, mapHeight, diagonals) ==
    AdjacentFrom(p, mapWidth, mapHeight, IF diagonals THEN 8 ELSE 4, 0, <<>>)

\* a Position on its own: the scheduler stays as constructed
InitPos == InitScenario

MoveTo(x, y) ==
    /\ pos' = [x |-> x, y |-> y]
    /\ lastOp' = "moveTo"
    /\ adj' = NoCall
    /\ UNCHANGED <<content, rest, ret>>

GetAdjacentCells(mapWidth, mapHeight, diagonals) ==
    /\ adj' = [w |-> mapWidth, h |-> mapHeight, diagonals |-> diagonals, at |-> pos,
               cells |-> AdjacentCells(pos, mapWidth, mapHeight, diagonals),
               made |-> TRUE]
    /\ lastOp' = "getAdjacentCells"
    /\ UNCHANGED <<content, rest, ret, pos>>

PosNext ==
    \/ \E x, y \in Coords : MoveTo(x, y)
    \/ \E mapWidth, mapHeight \in Dims : \E diagonals \in BOOLEAN :
          GetAdjacentCells(mapWidth, mapHeight, diagonals)

PosSpec == InitPos /\ [][PosNext]_vars

Abs(n) == IF n < 0 THEN 0 - n ELSE n

\* c is one step away from p: orthogonally, or diagonally too
IsNeighbour(p, c, diagonals) ==
    LET dx == Abs(c.x - p.x)
        dy == Abs(c.y - p.y)
    IN /\ dx <= 1
       /\ dy <= 1
       /\ IF diagonals THEN dx + dy >= 1 ELSE dx + dy = 1

InMap(c, mapWidth, mapHeight) ==
    c.x >= 0 /\ c.x < mapWidth /\ c.y >= 0 /\ c.y < mapHeight

\* C14: getAdjacentCells(mapWidth, mapHeight, diagonals) returns exactly
\* the neighbours of the position that lie inside the map: every cell
\* returned is inside the map and one step away (orthogonal steps only when
\* diagonals is false), no cell is returned twice, the position itself is
\* not returned, and every neighbour inside the map is returned.
C14_AdjacentCells ==
    adj.made =>
       LET cells == adj.cells IN
       /\ \A i \in 1..Len(cells) :
             /\ InMap(cells[i], adj.w, adj.h)
             /\ IsNeighbour(adj.at, cells[i], adj.diagonals)
             /\ cells[i] # adj.at
       /\ \A i, j \in 1..Len(cells) : i # j => cells[i] # cells[j]
       /\ \A x \in (adj.at.x - 1)..(adj.at.x + 1) : \A y \in (adj.at.y - 1)..(adj.at.y + 1) :
             LET c == [x |-> x, y |-> y] IN
             (InMap(c, adj.w, adj.h) /\ IsNeighbour(adj.at, c, adj.diagonals))
                => c \in Range(cells)

\* a call with diagonals on a border cell of the map: five of the eight
\* neighbours are inside
C14_Witness ==
    /\ adj.made
    /\ adj.diagonals
    /\ adj.at = [x |-> 0, y |-> 1]
    /\ adj.w = 3
    /\ adj.h = 3
    /\ Len(adj.cells) = 5

(* -------------------------------- C15 ---------------------------------- *)
\* every node of the array c has a key no larger than its children's
IsHeap(c, wt) == \A i \in 2..Len(c) : wt[c[i \div 2]] <= wt[c[i]]

\* C15: between the scheduler's operations each node of the heap has
\* waitTime <= the waitTime of its children, the bulk decrement and the
\* updates of popped entities notwithstanding; so the first element, which
\* run() reads elapsed from, has the least waitTime of the queue.
C15_HeapInvariant ==
    pc = "idle" =>
       /\ IsHeap(content, waitTime)
       /\ \A i \in 1..Len(content) : waitTime[HeapPeek(content, 0)] <= waitTime[content[i]]

(* -------------------------------- C16 ---------------------------------- *)
\* C16 as stated: before the first update() of a run() call, the minimum
\* waitTime found at entry has been subtracted from the waitTime of every
\* queued entity, whatever the sign of that minimum.
C16_AsStated ==
    BeforeFirstUpdate => \A e \in Range(content) : waitTime[e] = entry.w[e] - entry.min

\* C16 amended: run() reads elapsed from the first element of the heap,
\* which has the minimum waitTime whenever the heap is in order.  Before
\* the first update() of the call, elapsed has been subtracted from the
\* waitTime of every queued entity, once for each time the entity is in
\* the queue, if it is positive, and no waitTime has changed if it is zero
\* or negative; entities off the queue are left alone; and after that the
\* call changes no waitTime but, at each update(), that of the entity
\* being updated.
C16_Ordering ==
    /\ [](BeforeFirstUpdate =>
            /\ elapsed = entry.el
            /\ \A e \in Range(content) :
                  waitTime[e] = entry.w[e] - entry.n[e] * Consumed(elapsed))
    /\ [][lastOp' = "runBegin" =>
            /\ IsHeap(content, waitTime) => elapsed' = MinOf(content, waitTime)
            /\ \A e \in Entities \ Range(content) : waitTime'[e] = waitTime[e]]_vars
    /\ [][lastOp' = "runLoop" =>
            \A e \in Entities \ {entity} : waitTime'[e] = waitTime[e]]_vars
    /\ [][lastOp' = "run" => waitTime' = waitTime]_vars

\* a run() whose first element is negative at entry stands before its
\* first update(), with a queue of two or more: nothing has been subtracted
C16_Witness ==
    /\ BeforeFirstUpdate
    /\ entry.min < 0
    /\ entry.el = entry.min
    /\ Len(content) >= 2
    /\ \A e \in Range(content) : waitTime[e] = entry.w[e]

(* -------------------------------- C17 ---------------------------------- *)
\* C17: when a run() that was not a no-op returns, the queue holds the
\* entities it held at entry, each once; while the loop runs, the entities
\* already updated are out of the heap and wait in updatedEntities, the
\* others are still in the heap, and the re-insertion happens only once the
\* loop has ended.
C17_Membership ==
    /\ [](Returned =>
            /\ Range(content) = Range(q0)
            /\ Len(content) = Len(q0)
            /\ \A e \in Entities : Count(content, e) = 1 <=> e \in Range(q0))
    /\ [](pc = "loop" =>
            /\ Range(updatedEntities) = Activated
            /\ Activated \cap Range(content) = {}
            /\ Activated \cup Range(content) = Range(q0)
            /\ Len(content) + Len(updatedEntities) = Len(q0))
    /\ [][(pc = "loop" /\ Range(content') \cap Range(updatedEntities) # {})
             => (lastOp' = "run" /\ ~LoopCond(entity, waitTime))]_vars

(* -------------------------------- C18 ---------------------------------- *)
\* C18 as stated: when a run() returns during which an update() called
\* remove(e), e not having been added since, e is not in the queue.
C18_AsStated ==
    (Returned /\ removed # None) => removed \notin Range(content)

\* a step that is a remove() called by an update()
RemoveInUpdate == lastOp' = "remove" /\ pc = "update"

\* C18 amended: remove(e) called by an update() during run() takes one
\* occurrence of e off the heap if the heap holds e and changes nothing
\* otherwise; it leaves the entities popped and pending re-insertion where
\* they are, e and the entity being updated included, and run() puts every
\* one of them back when it returns.  So an e that is in the heap once and
\* not pending is out of the queue from the remove() on, and an e that is
\* pending is in the queue when run() returns.  Nothing enters the heap but
\* by add(), addAll() and that re-insertion, and run() updates only the
\* first element of the heap, so an e that is out of the queue is not
\* updated until it is added again.
C18_RemovalInLoop ==
    /\ [][RemoveInUpdate =>
            /\ \A x \in Entities :
                  Count(content', x) =
                     Count(content, x) - (IF x = removed' /\ x \in Range(content) THEN 1 ELSE 0)
            /\ updatedEntities' = updatedEntities
            /\ stack' = stack
            /\ waitTime' = waitTime
            /\ (Count(content, removed') = 1 /\ removed' \notin Range(Pending))
                  => removed' \notin Range(content') \cup Range(Pending')]_vars
    /\ [][lastOp' = "run" =>
            \A x \in Entities :
               Count(content', x) = Count(content, x) + Count(updatedEntities, x)]_vars
    /\ [][(\E x \in Entities : Count(content', x) > Count(content, x))
             => lastOp' \in {"add", "addAll", "run"}]_vars
    /\ [][(pc = "loop" /\ lastOp' \in {"runPop", "runLoop"}) =>
            /\ entity = HeapPeek(content, 0)
            /\ updatedEntities' = Append(updatedEntities, entity)]_vars

\* run() has returned with an entity in the queue, held once, that removed
\* itself in its own update()
C18_Witness ==
    /\ Returned
    /\ removed # None
    /\ Count(content, removed) = 1
    /\ Len(content) = 2

(* -------------------------------- C19 ---------------------------------- *)
\* the scheduler when no entity has a negative waitTime to begin with, and
\* so none is added with one
InitNonNeg ==
    /\ InitTracked
    /\ \A e \in Entities : waitTime[e] >= 0

NonNegSpec == InitNonNeg /\ [][Next]_vars

\* C19: when every entity is added with waitTime >= 0, no queued entity
\* has a negative waitTime between operations; every queued entity has
\* waitTime > 0 when a run() that was not a no-op returns; and a later
\* run() that is not a no-op, no add() or addAll() having come in between,
\* reads elapsed > 0 and finds an entity to update.
C19_AdvancingClock ==
    /\ [](pc = "idle" => \A e \in Range(content) : waitTime[e] >= 0)
    /\ [](Returned => \A e \in Range(content) : waitTime[e] > 0)
    /\ [][(lastOp' = "runBegin" /\ settled)
             => (elapsed' > 0 /\ LoopCond(entity', waitTime'))]_vars

(* -------------------------------- C20 ---------------------------------- *)
\* C20: run() never throws: it reads peek().waitTime at entry only from a
\* non-empty queue, every index of its decrement loop names an element of
\* the heap, and in the loop entity is the result of peek(), undefined once
\* the last entity has been popped, which ends the loop.
C20_NoDereference ==
    /\ error = FALSE
    /\ lastOp # "runThrow"
    /\ lastOp = "runBegin" => content # <<>>
    /\ \A i \in 0..(HeapSize(content) - 1) : HeapPeek(content, i) \in Entities
    /\ pc = "loop" => entity = HeapPeek(content, 0)
    /\ (pc = "loop" /\ HeapIsEmpty(content)) => (entity = None /\ ~LoopCond(entity, waitTime))

\* the loop has popped the last of two entities and stands at its head
\* with an undefined entity
C20_Witness ==
    /\ pc = "loop"
    /\ HeapIsEmpty(content)
    /\ entity = None
    /\ Len(updatedEntities) = 2
    /\ error = FALSE
====
